---- MODULE Spec2Model ----
(* A model of the we0-index service lifecycle and health aggregation:        *)
(*   src/launch/launch.py        HTTP server lifespan and GET /health         *)
(*   src/launch/we0_index_mcp.py tool-invocation (MCP) server lifespan        *)
(*   src/utils/health_check.py   the two probes and their aggregation         *)
(*   src/config/validation.py    validate_environment                         *)
(* Calls into code outside these files (settings lookup, the vector backend,  *)
(* the embedding client) are inputs: each either returns or raises.           *)
(* The report's timestamp and the fields copied verbatim from the settings    *)
(* (platform, provider, model names) are read by nothing and are left out.    *)
EXTENDS Integers, Sequences, FiniteSets, TLC

VARIABLES
    server,            \* which entry point this process runs: "http" | "mcp"
    lifespan,          \* position of the lifespan context manager
    initState,         \* the startup init call: not_called/in_progress/returned/raised
    accepting,         \* the lifespan has yielded: the server accepts requests
    closeCalled,       \* close_extensions() has been invoked
    inFlight,          \* the request handler currently executing, or "none"
    vpc,               \* position inside check_vector_database_health
    epc,               \* position inside check_embedding_service_health
    vector_health,     \* value returned by the vector probe
    embedding_health,  \* value returned by the embedding probe
    test_embeddings,   \* value returned by create_embedding
    awaited,           \* outcome of `await comprehensive_health_check()`
    response,          \* last JSONResponse sent by GET /health
    settings,          \* the settings snapshot seen by validate_environment
    environ,           \* names of the API-key environment variables that are set
    validation         \* outcome of validate_environment

vars == <<server, lifespan, initState, accepting, closeCalled, inFlight,
          vpc, epc, vector_health, embedding_health, test_embeddings,
          awaited, response, settings, environ, validation>>

lifecycleVars == <<server, lifespan, initState, accepting, closeCalled>>
probeVars == <<vpc, epc, vector_health, embedding_health, test_embeddings>>
validationVars == <<settings, environ, validation>>

----------------------------------------------------------------------------
(* Bounds *)

MaxDim == 2

----------------------------------------------------------------------------
(* Values *)

Servers == {"http", "mcp"}

Handlers(s) == IF s = "http" THEN {"health", "vector", "git"}
               ELSE {"clone_and_index", "retrieval"}

Dimensions == 1..MaxDim

Vectors == {[i \in 1..n |-> 0] : n \in 0..MaxDim}

EmbeddingResults == {<<>>} \cup {<<v>> : v \in Vectors}

Unset == [status |-> "unset"]

NoEmbeddings == [returned |-> FALSE, value |-> <<>>]

Pending == [kind |-> "pending"]

Return(v) == [kind |-> "return", value |-> v]

Raise(e) == [kind |-> "raise", error |-> e]

NoResponse == [status_code |-> 0]

\* ext_manager.init_vector(): it returns once the backend is constructed, or
\* surfaces the construction failure to its caller
init_vector_outcomes == {"returned", "raised"}

----------------------------------------------------------------------------
(* src/utils/health_check.py *)

\* lines 21-27: the record returned when the vector probe succeeds
vector_healthy(dimension) == [status |-> "healthy", dimension |-> dimension]

check_vector_database_health_propagates(e) == Raise(e)

\* lines 28-33: except Exception -> an unhealthy record is returned
check_vector_database_health_except(e) ==
    Return([status |-> "unhealthy", error |-> e])

\* lines 50-55
check_embedding_service_health_except(e) ==
    Return([status |-> "unhealthy", error |-> e])

embedding_healthy_unguarded(embeddings) ==
    IF embeddings = <<>>
    THEN [status |-> "unhealthy", error |-> "list index out of range"]
    ELSE [status |-> "healthy", dimension |-> Len(embeddings[1])]

\* lines 44-49: len(test_embeddings[0]) if test_embeddings else 0
embedding_healthy(embeddings) ==
    [status |-> "healthy",
     dimension |-> IF embeddings # <<>> THEN Len(embeddings[1]) ELSE 0]

\* lines 67, 71: the services dict, in insertion order
services_of(vh, eh) ==
    << [name |-> "vector_database", health |-> vh],
       [name |-> "embedding_service", health |-> eh] >>

unhealthy_services_reversed(services) ==
    LET bad == SelectSeq(services, LAMBDA s : s.health.status # "healthy")
    IN  [i \in 1..Len(bad) |-> bad[Len(bad) + 1 - i].name]

\* lines 74-77: the list comprehension over services.items()
unhealthy_services(services) ==
    LET bad == SelectSeq(services, LAMBDA s : s.health.status # "healthy")
    IN  [i \in 1..Len(bad) |-> bad[i].name]

compose_report_all_must_fail(services, unhealthy) ==
    IF Len(unhealthy) = Len(services)
    THEN [overall_status |-> "unhealthy", services |-> services,
          unhealthy_services |-> unhealthy]
    ELSE [overall_status |-> "healthy", services |-> services]

\* lines 59-63, 79-83: overall_status starts "healthy"; a non-empty list
\* flips it and adds the unhealthy_services key
compose_report(services, unhealthy) ==
    IF unhealthy # <<>>
    THEN [overall_status |-> "unhealthy", services |-> services,
          unhealthy_services |-> unhealthy]
    ELSE [overall_status |-> "healthy", services |-> services]

\* lines 57-83 after both probes have returned
comprehensive_health_check(vh, eh) ==
    LET services == services_of(vh, eh)
    IN  compose_report(services, unhealthy_services(services))

----------------------------------------------------------------------------
(* src/launch/launch.py: GET /health *)

health_check_always_ok(outcome) ==
    IF outcome.kind = "raise"
    THEN [status_code |-> 503,
          content |-> [status |-> "unhealthy", error |-> outcome.error]]
    ELSE [status_code |-> 200, content |-> outcome.value]

\* lines 77-89
health_check(outcome) ==
    IF outcome.kind = "raise"
    THEN [status_code |-> 503,
          content |-> [status |-> "unhealthy", error |-> outcome.error]]
    ELSE [status_code |-> IF outcome.value.overall_status = "healthy"
                          THEN 200 ELSE 503,
          content |-> outcome.value]

----------------------------------------------------------------------------
(* src/config/validation.py *)

Platforms == {"pgvector", "qdrant", "chroma"}

ConfigValues == {"none", "empty", "populated"}

\* `not x` for a configuration record: None and {} are falsy
Falsy(x) == x \in {"none", "empty"}

SettingsInputs ==
    [load : {"ok", "none", "raise"},
     platform : Platforms \cup {"other"},
     pgvector : ConfigValues, qdrant : ConfigValues, chroma : ConfigValues,
     embedding_provider : {"openai", "jina", "other"}]

EnvInputs == SUBSET {"OPENAI_API_KEY", "JINA_API_KEY"}

validate_environment_requires_key(s, env) ==
    IF s.load # "ok" THEN [result |-> FALSE, warnings |-> {}]
    ELSE IF s.platform = "pgvector" /\ Falsy(s.pgvector)
         THEN [result |-> FALSE, warnings |-> {}]
    ELSE IF s.platform = "qdrant" /\ Falsy(s.qdrant)
         THEN [result |-> FALSE, warnings |-> {}]
    ELSE IF s.platform = "chroma" /\ Falsy(s.chroma)
         THEN [result |-> FALSE, warnings |-> {}]
    ELSE IF s.embedding_provider = "openai" /\ "OPENAI_API_KEY" \notin env
         THEN [result |-> FALSE, warnings |-> {"OPENAI_API_KEY not set"}]
    ELSE [result |-> TRUE, warnings |-> {}]

\* lines 7-47
validate_environment(s, env) ==
    IF s.load = "raise" THEN [result |-> FALSE, warnings |-> {}]
    ELSE IF s.load = "none" THEN [result |-> FALSE, warnings |-> {}]
    ELSE IF s.platform = "pgvector" /\ Falsy(s.pgvector)
         THEN [result |-> FALSE, warnings |-> {}]
    ELSE IF s.platform = "qdrant" /\ Falsy(s.qdrant)
         THEN [result |-> FALSE, warnings |-> {}]
    ELSE IF s.platform = "chroma" /\ Falsy(s.chroma)
         THEN [result |-> FALSE, warnings |-> {}]
    ELSE [result |-> TRUE,
          warnings |->
            (IF s.embedding_provider = "openai" /\ "OPENAI_API_KEY" \notin env
             THEN {"OPENAI_API_KEY not set"} ELSE {})
            \cup
            (IF s.embedding_provider = "jina" /\ "JINA_API_KEY" \notin env
             THEN {"JINA_API_KEY not set"} ELSE {})]
----------------------------------------------------------------------------
(* The server process: lifespan, request handling, the health check        *)

IdleProbes ==
    /\ vpc = "notstarted"
    /\ epc = "notstarted"
    /\ vector_health = Unset
    /\ embedding_health = Unset
    /\ test_embeddings = NoEmbeddings

IdleValidation ==
    /\ settings = [load |-> "ok", platform |-> "other", pgvector |-> "none",
                   qdrant |-> "none", chroma |-> "none",
                   embedding_provider |-> "other"]
    /\ environ = {}
    /\ validation = [state |-> "not run"]

Init ==
    /\ server \in Servers
    /\ lifespan = "created"
    /\ initState = "not_called"
    /\ accepting = FALSE
    /\ closeCalled = FALSE
    /\ inFlight = "none"
    /\ IdleProbes
    /\ awaited = Pending
    /\ response = NoResponse
    /\ IdleValidation

LifespanEnter_yield_first ==
    /\ lifespan = "created"
    /\ lifespan' = "init"
    /\ initState' = "in_progress"
    /\ accepting' = TRUE
    /\ UNCHANGED <<server, closeCalled, inFlight, probeVars, awaited, response,
                   validationVars>>

\* launch.py 42-44, we0_index_mcp.py 27: the lifespan is entered and awaits
\* the init call; nothing is yielded yet
LifespanEnter ==
    /\ lifespan = "created"
    /\ lifespan' = "init"
    /\ initState' = "in_progress"
    /\ UNCHANGED <<server, accepting, closeCalled, inFlight, probeVars, awaited,
                   response, validationVars>>

\* launch.py 44-45, we0_index_mcp.py 27-28: init returned, the lifespan yields
InitReturn ==
    /\ lifespan = "init"
    /\ initState = "in_progress"
    /\ "returned" \in init_vector_outcomes
    /\ initState' = "returned"
    /\ lifespan' = "yielded"
    /\ accepting' = TRUE
    /\ UNCHANGED <<server, closeCalled, inFlight, probeVars, awaited, response,
                   validationVars>>

InitRaise_no_finally ==
    /\ lifespan = "init"
    /\ initState = "in_progress"
    /\ "raised" \in init_vector_outcomes
    /\ initState' = "raised"
    /\ lifespan' = "failed"
    /\ accepting' = FALSE
    /\ UNCHANGED <<server, closeCalled, inFlight, probeVars, awaited, response,
                   validationVars>>

\* launch.py 42-48: init raised; there is no except clause, so the finally
\* block runs close_extensions and the exception leaves the lifespan.
\* we0_index_mcp.py 27: init raised; the exception leaves the lifespan.
InitRaise ==
    /\ lifespan = "init"
    /\ initState = "in_progress"
    /\ "raised" \in init_vector_outcomes
    /\ initState' = "raised"
    /\ lifespan' = "failed"
    /\ accepting' = FALSE
    /\ closeCalled' = (server = "http")
    /\ UNCHANGED <<server, inFlight, probeVars, awaited, response,
                   validationVars>>

\* launch.py 45-48: the lifespan is resumed after the yield, the finally block
\* runs close_extensions. we0_index_mcp.py 28-30: nothing follows the yield.
Shutdown ==
    /\ lifespan = "yielded"
    /\ inFlight = "none"
    /\ lifespan' = "exited"
    /\ accepting' = FALSE
    /\ closeCalled' = (server = "http")
    /\ UNCHANGED <<server, initState, inFlight, probeVars, awaited, response,
                   validationVars>>

\* launch.py 73-74, we0_index_mcp.py 37-40: a route or tool other than /health
RequestBegin(h) ==
    /\ accepting
    /\ inFlight = "none"
    /\ h \in Handlers(server) \ {"health"}
    /\ inFlight' = h
    /\ UNCHANGED <<lifecycleVars, probeVars, awaited, response, validationVars>>

RequestEnd ==
    /\ inFlight \notin {"none", "health"}
    /\ inFlight' = "none"
    /\ UNCHANGED <<lifecycleVars, probeVars, awaited, response, validationVars>>

\* launch.py 78-81, health_check.py 59-66, 12: GET /health enters the handler,
\* which awaits comprehensive_health_check, which awaits the vector probe
HealthBegin ==
    /\ accepting
    /\ inFlight = "none"
    /\ "health" \in Handlers(server)
    /\ inFlight' = "health"
    /\ vpc' = "settings"
    /\ epc' = "notstarted"
    /\ vector_health' = Unset
    /\ embedding_health' = Unset
    /\ test_embeddings' = NoEmbeddings
    /\ awaited' = Pending
    /\ UNCHANGED <<lifecycleVars, response, validationVars>>

\* An exception leaves a probe: it leaves comprehensive_health_check (which
\* has no try block) and is caught by the handler, launch.py 84-89
Propagate(r) ==
    /\ awaited' = r
    /\ response' = health_check(r)
    /\ inFlight' = "none"

\* health_check.py 28-33
VectorExcept(e) ==
    LET r == check_vector_database_health_except(e)
    IN  IF r.kind = "return"
        THEN /\ vector_health' = r.value
             /\ vpc' = "done"
             /\ UNCHANGED <<lifecycleVars, inFlight, epc, embedding_health,
                            test_embeddings, awaited, response, validationVars>>
        ELSE /\ Propagate(r)
             /\ vpc' = "raised"
             /\ UNCHANGED <<lifecycleVars, epc, vector_health, embedding_health,
                            test_embeddings, validationVars>>

VectorStep(next) ==
    /\ vpc' = next
    /\ UNCHANGED <<lifecycleVars, inFlight, epc, vector_health, embedding_health,
                   test_embeddings, awaited, response, validationVars>>

\* health_check.py 13
VecSettings ==
    /\ inFlight = "health"
    /\ vpc = "settings"
    /\ \E ok \in BOOLEAN :
         IF ok THEN VectorStep("init_app")
         ELSE VectorExcept("settings lookup failed")

\* health_check.py 16
VecInitApp ==
    /\ inFlight = "health"
    /\ vpc = "init_app"
    /\ \E ok \in BOOLEAN :
         IF ok THEN VectorStep("get_dimension")
         ELSE VectorExcept("init_app failed")

\* health_check.py 19-27
VecGetDimension ==
    /\ inFlight = "health"
    /\ vpc = "get_dimension"
    /\ \/ VectorExcept("get_dimension failed")
       \/ \E d \in Dimensions :
            /\ vector_health' = vector_healthy(d)
            /\ vpc' = "done"
            /\ UNCHANGED <<lifecycleVars, inFlight, epc, embedding_health,
                           test_embeddings, awaited, response, validationVars>>

StartEmbeddingProbe_gather ==
    /\ inFlight = "health"
    /\ vpc \in {"settings", "init_app", "get_dimension", "done"}
    /\ epc = "notstarted"
    /\ epc' = "get_embedding_model"
    /\ UNCHANGED <<lifecycleVars, inFlight, vpc, vector_health, embedding_health,
                   test_embeddings, awaited, response, validationVars>>

\* health_check.py 66-70: the await of the vector probe has returned; its
\* record is stored and only then the embedding probe is called
StartEmbeddingProbe ==
    /\ inFlight = "health"
    /\ vpc = "done"
    /\ epc = "notstarted"
    /\ epc' = "get_embedding_model"
    /\ UNCHANGED <<lifecycleVars, inFlight, vpc, vector_health, embedding_health,
                   test_embeddings, awaited, response, validationVars>>

\* health_check.py 50-55
EmbeddingExcept(e) ==
    LET r == check_embedding_service_health_except(e)
    IN  IF r.kind = "return"
        THEN /\ embedding_health' = r.value
             /\ epc' = "done"
             /\ UNCHANGED <<lifecycleVars, inFlight, vpc, vector_health,
                            test_embeddings, awaited, response, validationVars>>
        ELSE /\ Propagate(r)
             /\ epc' = "raised"
             /\ UNCHANGED <<lifecycleVars, vpc, vector_health, embedding_health,
                            test_embeddings, validationVars>>

\* health_check.py 39
EmbGetModel ==
    /\ inFlight = "health"
    /\ epc = "get_embedding_model"
    /\ \/ EmbeddingExcept("get_embedding_model failed")
       \/ /\ epc' = "create_embedding"
          /\ UNCHANGED <<lifecycleVars, inFlight, vpc, vector_health,
                         embedding_health, test_embeddings, awaited, response,
                         validationVars>>

\* health_check.py 42-49
EmbCreateEmbedding ==
    /\ inFlight = "health"
    /\ epc = "create_embedding"
    /\ \/ EmbeddingExcept("create_embedding failed")
       \/ \E te \in EmbeddingResults :
            /\ test_embeddings' = [returned |-> TRUE, value |-> te]
            /\ embedding_health' = embedding_healthy(te)
            /\ epc' = "done"
            /\ UNCHANGED <<lifecycleVars, inFlight, vpc, vector_health,
                           awaited, response, validationVars>>

\* health_check.py 71-83, launch.py 82-83: both probes have returned; the
\* report is composed and the handler turns it into the response
HealthFinish ==
    /\ inFlight = "health"
    /\ vpc = "done"
    /\ epc = "done"
    /\ LET r == Return(comprehensive_health_check(vector_health, embedding_health))
       IN  /\ awaited' = r
           /\ response' = health_check(r)
    /\ inFlight' = "none"
    /\ UNCHANGED <<lifecycleVars, probeVars, validationVars>>

Next ==
    \/ LifespanEnter
    \/ InitReturn
    \/ InitRaise
    \/ Shutdown
    \/ \E h \in {"vector", "git", "clone_and_index", "retrieval"} : RequestBegin(h)
    \/ RequestEnd
    \/ HealthBegin
    \/ VecSettings
    \/ VecInitApp
    \/ VecGetDimension
    \/ StartEmbeddingProbe
    \/ EmbGetModel
    \/ EmbCreateEmbedding
    \/ HealthFinish

Spec == Init /\ [][Next]_vars
----------------------------------------------------------------------------
(* GET /health in isolation: the handler of launch.py 77-89 applied to      *)
(* every outcome the awaited call can have, a returned report or an         *)
(* exception.                                                               *)

VectorErrors ==
    {"settings lookup failed", "init_app failed", "get_dimension failed"}

EmbeddingErrors == {"get_embedding_model failed", "create_embedding failed"}

VectorHealths ==
    {vector_healthy(d) : d \in Dimensions}
    \cup {check_vector_database_health_except(e).value : e \in VectorErrors}

EmbeddingHealths ==
    {embedding_healthy(te) : te \in EmbeddingResults}
    \cup {check_embedding_service_health_except(e).value : e \in EmbeddingErrors}

AwaitOutcomes ==
    {Return(comprehensive_health_check(vh, eh)) :
        vh \in VectorHealths, eh \in EmbeddingHealths}
    \cup {Raise(e) : e \in {"aggregation failed"}}

HandlerInit ==
    /\ server = "http"
    /\ lifespan = "yielded"
    /\ initState = "returned"
    /\ accepting = TRUE
    /\ closeCalled = FALSE
    /\ inFlight = "none"
    /\ IdleProbes
    /\ awaited = Pending
    /\ response = NoResponse
    /\ IdleValidation

\* launch.py 80-81: the handler is entered and awaits the aggregation
HandlerCall ==
    /\ accepting
    /\ inFlight = "none"
    /\ inFlight' = "health"
    /\ awaited' \in AwaitOutcomes
    /\ UNCHANGED <<lifecycleVars, probeVars, response, validationVars>>

\* launch.py 82-89
HandlerRespond ==
    /\ inFlight = "health"
    /\ response' = health_check(awaited)
    /\ inFlight' = "none"
    /\ UNCHANGED <<lifecycleVars, probeVars, awaited, validationVars>>

HandlerNext ==
    \/ HandlerCall
    \/ HandlerRespond

SpecHandler == HandlerInit /\ [][HandlerNext]_vars

----------------------------------------------------------------------------
(* validate_environment as run by scripts/validate_project.py               *)

ValidateInit ==
    /\ server = "http"
    /\ lifespan = "created"
    /\ initState = "not_called"
    /\ accepting = FALSE
    /\ closeCalled = FALSE
    /\ inFlight = "none"
    /\ IdleProbes
    /\ awaited = Pending
    /\ response = NoResponse
    /\ settings \in SettingsInputs
    /\ environ \in EnvInputs
    /\ validation = [state |-> "not run"]

\* validate_project.py 17-21
Validate ==
    /\ validation.state = "not run"
    /\ LET v == validate_environment(settings, environ)
       IN  validation' = [state |-> "done", result |-> v.result,
                          warnings |-> v.warnings]
    /\ UNCHANGED <<lifecycleVars, inFlight, probeVars, awaited, response,
                   settings, environ>>

ValidateNext == Validate

SpecValidate == ValidateInit /\ [][ValidateNext]_vars

----------------------------------------------------------------------------
(* Properties *)

Healthy(h) == h.status = "healthy"

\* C1: the report returned by comprehensive_health_check has overall_status
\* "healthy" if and only if every entry of its services has status "healthy".
C1_OverallIffAllHealthy ==
    awaited.kind = "return" =>
        LET r == awaited.value
        IN  (r.overall_status = "healthy")
            <=> (\A i \in 1..Len(r.services) : Healthy(r.services[i].health))

C1_Witness ==
    /\ awaited.kind = "return"
    /\ Healthy(vector_health)
    /\ ~Healthy(embedding_health)
    /\ awaited.value.overall_status = "unhealthy"

\* C2: comprehensive_health_check never raises; a failed vector probe leaves
\* the embedding probe free to run; the returned report holds an entry for
\* "vector_database" and one for "embedding_service".
C2_NeverRaises ==
    /\ awaited.kind # "raise"
    /\ vpc # "raised"
    /\ epc # "raised"
    /\ (inFlight = "health" /\ vpc = "done" /\ epc = "notstarted")
        => ENABLED StartEmbeddingProbe
    /\ awaited.kind = "return" =>
        /\ {awaited.value.services[i].name : i \in 1..Len(awaited.value.services)}
             = {"vector_database", "embedding_service"}
        /\ awaited.value.services[1].health = vector_health
        /\ awaited.value.services[2].health = embedding_health
        /\ vector_health # Unset
        /\ embedding_health # Unset

C2_Witness ==
    /\ awaited.kind = "return"
    /\ vector_health.status = "unhealthy"
    /\ embedding_health.status = "unhealthy"
    /\ Len(awaited.value.services) = 2

C4_InitFailureDoesNotFailStartup ==
    initState = "raised" => lifespan # "failed"

C6_NoRequestBeforeInitCompleted ==
    (inFlight # "none" \/ accepting) => initState \in {"returned", "raised"}

C6_Witness ==
    /\ server = "mcp"
    /\ inFlight = "retrieval"
    /\ initState = "returned"

\* C7: for a supported platform, validate_environment succeeds if and only if
\* the selected platform's configuration record is non-empty, whatever the
\* other records and the API-key environment variables are.
C7_ValidIffSelectedConfigPresent ==
    (validation.state = "done" /\ settings.load = "ok"
        /\ settings.platform \in Platforms)
    => (validation.result <=>
          \/ settings.platform = "pgvector" /\ settings.pgvector = "populated"
          \/ settings.platform = "qdrant" /\ settings.qdrant = "populated"
          \/ settings.platform = "chroma" /\ settings.chroma = "populated")

C7_Witness ==
    /\ validation.state = "done"
    /\ settings.load = "ok"
    /\ settings.platform = "qdrant"
    /\ settings.qdrant = "populated"
    /\ settings.pgvector = "none"
    /\ settings.chroma = "empty"
    /\ settings.embedding_provider = "openai"
    /\ environ = {}
    /\ validation.result = TRUE

\* C8: GET /health answers 200 exactly when the report's overall_status is
\* "healthy" and 503 otherwise; when the aggregation raises, it answers 503
\* with the body {status: "unhealthy", error: message}.
C8_StatusCode ==
    (inFlight = "none" /\ awaited # Pending) =>
        /\ response.status_code \in {200, 503}
        /\ (response.status_code = 200)
             <=> (awaited.kind = "return"
                  /\ awaited.value.overall_status = "healthy")
        /\ awaited.kind = "return" => response.content = awaited.value
        /\ awaited.kind = "raise" =>
             response = [status_code |-> 503,
                         content |-> [status |-> "unhealthy",
                                      error |-> awaited.error]]

C8_Witness ==
    /\ inFlight = "none"
    /\ awaited.kind = "raise"
    /\ response.status_code = 503
    /\ response.content.error = "aggregation failed"

\* C9: the unhealthy_services key is present exactly when overall_status is
\* "unhealthy", and then lists the services that are not healthy, each once,
\* vector_database before embedding_service.
C9_UnhealthyServices ==
    awaited.kind = "return" =>
        LET r == awaited.value
            present == "unhealthy_services" \in DOMAIN r
        IN  /\ present <=> (r.overall_status = "unhealthy")
            /\ present =>
                 r.unhealthy_services =
                    (IF Healthy(vector_health) THEN <<>>
                     ELSE <<"vector_database">>)
                    \o (IF Healthy(embedding_health) THEN <<>>
                        ELSE <<"embedding_service">>)

C9_Witness ==
    /\ awaited.kind = "return"
    /\ ~Healthy(vector_health)
    /\ ~Healthy(embedding_health)
    /\ awaited.value.unhealthy_services
         = <<"vector_database", "embedding_service">>

\* C10: an empty embedding result is not indexed: the probe returns status
\* "healthy" with dimension 0; otherwise the dimension is the length of the
\* first returned vector.
C10_EmptyResultIsDimensionZero ==
    test_embeddings.returned =>
        /\ embedding_health.status = "healthy"
        /\ embedding_health.dimension =
             (IF Len(test_embeddings.value) = 0 THEN 0
              ELSE Len(Head(test_embeddings.value)))

C10_Witness ==
    /\ test_embeddings.returned
    /\ test_embeddings.value = <<>>
    /\ embedding_health = [status |-> "healthy", dimension |-> 0]

====
